---- MODULE Spec2Model ----
(***************************************************************************)
(* SafariHistory (mvt/ios/modules/mixed/safari_history.py): the load       *)
(* phase run(), the redirect-chain analysis _find_injections() and the     *)
(* indicator pass of check_indicators().                                   *)
(*                                                                         *)
(* A url is a pair <<scheme, host>> standing for the string                *)
(* scheme ++ "://" ++ host; NoneUrl is Python's None in the url column.    *)
(* Integer columns hold an integer or None.  A time is a pair               *)
(* [s, ms]: whole seconds and the millisecond part of the store's REAL     *)
(* platform time.                                                          *)
(***************************************************************************)
EXTENDS Integers, Sequences, FiniteSets, TLC

\* ------------------------------------------------------------- bounds
MaxLen == 2

\* ------------------------------------------------------------- values
None == -1
NoneUrl == <<>>

UrlValues ==
  { NoneUrl, <<"http", "a.com">>, <<"HTTP", "B.COM">>, <<"https", "sub.a.com">> }

T(s, ms) == [ s |-> s, ms |-> ms ]
NoneTime == T(None, None)

TimeValues == { T(1, 0), T(1, 300), T(2, 300), T(86401, 300) }

VisitIds == {0, 1, 2}

NoIndicators == [ configured |-> FALSE, domains |-> {} ]

IndicatorValues == { NoIndicators, [ configured |-> TRUE, domains |-> {"b.com"} ] }

\* ------------------------------------------------------------- str, URL, time
Lower(s) ==
  CASE s = "HTTP" -> "http"
    [] s = "B.COM" -> "b.com"
    [] OTHER -> s

IsPlainHttp_AnyHttp(url) == Lower(url[1]) \in {"http", "https"}

\* result["url"].lower().startswith("http://")
IsPlainHttp(url) == Lower(url[1]) = "http"

\* URL(url).domain
Domain(url) ==
  LET host == Lower(url[2])
  IN  IF host = "sub.a.com" THEN "a.com" ELSE host

\* not result["redirect_destination"]
Falsy(v) == v = None \/ v = 0

MacEpochOffset == 978307200

convert_mactime_to_unix(t) ==
  IF t = NoneTime THEN NoneTime ELSE [ s |-> t.s + MacEpochOffset, ms |-> t.ms ]

\* defined on a datetime only: None has no strftime
CanConvertToIso(u) == u # NoneTime

convert_timestamp_to_iso(u) == <<"iso", u.s, u.ms>>

MsPerSecond == 1000
SecondsPerDay == 86400

\* redirect_time - origin_time: a timedelta, normalised to days, seconds in
\* 0..86399 and a sub-second part in 0..999 ms
Timedelta(a, b) ==
  LET ms == (a.s - b.s) * MsPerSecond + (a.ms - b.ms)
  IN  [ days         |-> ms \div (SecondsPerDay * MsPerSecond),
        seconds      |-> (ms % (SecondsPerDay * MsPerSecond)) \div MsPerSecond,
        milliseconds |-> ms % MsPerSecond ]

\* elapsed_time.seconds == 0
TookLessThanASecond(elapsed_time) == elapsed_time.seconds = 0

\* one item of run(); the id and redirect_source columns, which no code
\* below reads, are left out
Visit(url, visit_id, timestamp, redirect_destination) ==
  [ url |-> url, visit_id |-> visit_id, timestamp |-> timestamp,
    isodate |-> convert_timestamp_to_iso(convert_mactime_to_unix(timestamp)),
    redirect_destination |-> redirect_destination ]

\* ------------------------------------------------------------- _find_injections
Info(origin_domain, redirect_domain) == <<"info", origin_domain, redirect_domain>>
Warning(elapsed_ms) == <<"warning", elapsed_ms>>

ScanRange_Forward(seq, i) == (i + 1)..Len(seq)

\* for redirect in self.results: the positions the inner loop visits
ScanRange(seq, i) == 1..Len(seq)

\* lines 54-72 for one redirect record j
Redirect(seq, i, j) ==
  LET result == seq[i]
      redirect == seq[j]
  IN  IF redirect.visit_id # result.redirect_destination
      THEN [ events |-> <<>>, err |-> FALSE ]
      ELSE IF redirect.url = NoneUrl   \* URL(None) has no domain: raises
      THEN [ events |-> <<>>, err |-> TRUE ]
      ELSE IF Domain(result.url) = Domain(redirect.url)
      THEN [ events |-> <<>>, err |-> FALSE ]
      ELSE LET redirect_time == convert_mactime_to_unix(redirect.timestamp)
               origin_time == convert_mactime_to_unix(result.timestamp)
               elapsed_time == Timedelta(redirect_time, origin_time)
               elapsed_ms == elapsed_time.milliseconds
           IN  [ events |->
                   <<Info(Domain(result.url), Domain(redirect.url))>> \o
                   (IF TookLessThanASecond(elapsed_time)
                    THEN <<Warning(elapsed_ms)>> ELSE <<>>),
                 err |-> FALSE ]

RECURSIVE Scan(_, _, _, _)
Scan(seq, i, j, acc) ==
  IF j > Len(seq) \/ acc.err THEN acc
  ELSE IF j \notin ScanRange(seq, i) THEN Scan(seq, i, j + 1, acc)
  ELSE LET r == Redirect(seq, i, j)
       IN  Scan(seq, i, j + 1, [ events |-> acc.events \o r.events, err |-> r.err ])

\* lines 41-72 for one origin record i
ProcessOrigin(seq, i) ==
  LET result == seq[i]
  IN  IF result.url = NoneUrl   \* None has no lower(): AttributeError
      THEN [ events |-> <<>>, err |-> TRUE ]
      ELSE IF ~IsPlainHttp(result.url) THEN [ events |-> <<>>, err |-> FALSE ]
      ELSE IF Falsy(result.redirect_destination) THEN [ events |-> <<>>, err |-> FALSE ]
      ELSE Scan(seq, i, 1, [ events |-> <<>>, err |-> FALSE ])

\* ------------------------------------------------------------- check_indicators
IndicatorsAbsent_Never(ind) == FALSE

\* not self.indicators
IndicatorsAbsent(ind) == ~ind.configured

\* self.indicators.check_domain(url)
check_domain(ind, url) == Domain(url) \in ind.domains

AppendDetected_Front(det, result) == <<result>> \o det

\* self.detected.append(result)
AppendDetected(det, result) == Append(det, result)

ChainDetected_Flag(det, result) ==
  IF result.url # NoneUrl /\ IsPlainHttp(result.url) THEN Append(det, result) ELSE det

\* self.detected across one iteration of _find_injections
ChainDetected(det, result) == det

\* ------------------------------------------------------------- run
ResultsAfterRow_Direct(res, item) == Append(res, item)

\* self.results across one iteration of the cursor loop
ResultsAfterRow(res, item) == res

\* the results list handed to the constructor
PriorResults == <<Visit(<<"http", "a.com">>, 0, T(1, 0), None)>>

NoStore ==
  [ found |-> FALSE, readable |-> FALSE, schema_ok |-> FALSE, rows |-> <<>>,
    corrupt_at |-> 0 ]

VARIABLES results, indicators, detected, log, cut, pc, i, store, conn, items, first

vars == <<results, indicators, detected, log, cut, pc, i, store, conn, items, first>>

\* ORDER BY history_visits.visit_time (NULL sorts first)
TimeLeq(a, b) ==
  \/ a = NoneTime
  \/ b # NoneTime /\ (a.s < b.s \/ (a.s = b.s /\ a.ms <= b.ms))

Sorted(ts) == \A a, b \in 1..Len(ts) : a < b => TimeLeq(ts[a], ts[b])

\* history_visits.id is a primary key.  The code tests visit ids for
\* equality and truthiness only, so the nonzero ones are taken as 1, 2, ...
\* in order of appearance.
VisitIdOrder(ids) ==
  /\ \A a, b \in 1..Len(ids) : a # b => ids[a] # ids[b]
  /\ \A a, b \in 1..Len(ids) : (a < b /\ ids[a] # 0 /\ ids[b] # 0) => ids[a] < ids[b]
  /\ \A a \in 1..Len(ids) : ids[a] > 1 => \E b \in 1..Len(ids) : ids[b] = ids[a] - 1

\* the visit sequences whose urls and times come from the given sets
IsVisitSequence(seq, urls, times) ==
  \E n \in 0..MaxLen :
    \E ids \in [1..n -> VisitIds] :
      /\ VisitIdOrder(ids)
      /\ \E ts \in [1..n -> times] :
           /\ Sorted(ts)
           /\ \E us \in [1..n -> urls], rds \in [1..n -> VisitIds \cup {None}] :
                seq = [ k \in 1..n |-> Visit(us[k], ids[k], ts[k], rds[k]) ]

Init ==
  /\ IsVisitSequence(results, UrlValues, TimeValues)
  /\ indicators \in IndicatorValues
  /\ detected = <<>>
  /\ log = <<>>
  /\ cut = <<>>
  /\ pc = "idle"
  /\ i = 0
  /\ store = NoStore
  /\ conn = "none"
  /\ items = <<>>
  /\ first = <<>>

runvars == <<store, conn, items, first>>

CallCheckIndicators ==
  /\ pc = "idle"
  /\ pc' = "find"
  /\ i' = 1
  /\ UNCHANGED <<results, indicators, detected, log, cut, runvars>>

\* one iteration of the outer loop; cut records where the log stood when
\* the iteration ended
FindInjectionsStep ==
  /\ pc = "find"
  /\ i <= Len(results)
  /\ LET out == ProcessOrigin(results, i)
     IN  /\ log' = log \o out.events
         /\ IF out.err
            THEN /\ pc' = "raised"
                 /\ UNCHANGED <<i, cut>>
            ELSE /\ pc' = pc
                 /\ i' = i + 1
                 /\ cut' = Append(cut, Len(log'))
  /\ detected' = ChainDetected(detected, results[i])
  /\ UNCHANGED <<results, indicators, runvars>>

FindInjectionsReturn ==
  /\ pc = "find"
  /\ i > Len(results)
  /\ IF IndicatorsAbsent(indicators)
     THEN pc' = "done" /\ i' = i
     ELSE pc' = "match" /\ i' = 1
  /\ UNCHANGED <<results, indicators, detected, log, cut, runvars>>

CheckDomainStep ==
  /\ pc = "match"
  /\ i <= Len(results)
  /\ detected' = IF check_domain(indicators, results[i].url)
                 THEN AppendDetected(detected, results[i])
                 ELSE detected
  /\ i' = i + 1
  /\ UNCHANGED <<results, indicators, log, cut, pc, runvars>>

CheckIndicatorsReturn ==
  /\ pc = "match"
  /\ i > Len(results)
  /\ pc' = "done"
  /\ UNCHANGED <<results, indicators, detected, log, cut, i, runvars>>

Next ==
  \/ CallCheckIndicators
  \/ FindInjectionsStep
  \/ FindInjectionsReturn
  \/ CheckDomainStep
  \/ CheckIndicatorsReturn

Spec == Init /\ [][Next]_vars

\* ------------------------------------------------------------- run()
RowTimeValues == { NoneTime, T(1, 0), T(1, 300) }

RowUrlValues == { <<"http", "a.com">> }

InitRun ==
  /\ results = PriorResults
  /\ indicators = NoIndicators
  /\ detected = <<>>
  /\ log = <<>>
  /\ cut = <<>>
  /\ pc = "run"
  /\ i = 0
  /\ \E found, readable, schema_ok \in BOOLEAN, corrupt_at \in 0..MaxLen :
       \E rows \in { r \in UNION { [1..n -> [ url : RowUrlValues, visit_id : VisitIds,
                                               timestamp : RowTimeValues,
                                               redirect_destination : {None} ]] :
                                     n \in 0..MaxLen } :
                       /\ VisitIdOrder([ k \in 1..Len(r) |-> r[k].visit_id ])
                       /\ Sorted([ k \in 1..Len(r) |-> r[k].timestamp ]) } :
         store = [ found |-> found, readable |-> readable, schema_ok |-> schema_ok,
                   rows |-> rows, corrupt_at |-> corrupt_at ]
  /\ conn = "none"
  /\ items = <<>>
  /\ first = <<>>

detvars == <<indicators, detected, log, cut, first>>

\* line 85: self._find_ios_database(...)
FindIosDatabase ==
  /\ pc = "run"
  /\ pc' = IF store.found THEN "located" ELSE "raised"
  /\ UNCHANGED <<results, i, store, conn, items, detvars>>

\* line 88: sqlite3.connect(self.file_path)
Connect ==
  /\ pc = "located"
  /\ IF store.readable
     THEN conn' = "open" /\ pc' = "connected"
     ELSE conn' = conn /\ pc' = "raised"
  /\ UNCHANGED <<results, i, store, items, detvars>>

\* lines 89-103: cur.execute(...); items = []
Execute ==
  /\ pc = "connected"
  /\ IF store.schema_ok
     THEN pc' = "fetch" /\ i' = 1 /\ items' = <<>>
     ELSE pc' = "raised" /\ UNCHANGED <<i, items>>
  /\ UNCHANGED <<results, store, conn, detvars>>

\* lines 104-113: one row of the cursor
FetchRow ==
  /\ pc = "fetch"
  /\ i <= Len(store.rows)
  /\ LET item == store.rows[i]
         unix == convert_mactime_to_unix(item.timestamp)
     IN  IF store.corrupt_at = i \/ ~CanConvertToIso(unix)
         THEN /\ pc' = "raised"
              /\ UNCHANGED <<results, i, items>>
         ELSE /\ items' = Append(items,
                    Visit(item.url, item.visit_id, item.timestamp,
                          item.redirect_destination))
              /\ results' = ResultsAfterRow(results, items'[Len(items')])
              /\ i' = i + 1
              /\ pc' = pc
  /\ UNCHANGED <<store, conn, detvars>>

\* lines 115-116: cur.close(); conn.close()
CloseConnection ==
  /\ pc = "fetch"
  /\ i > Len(store.rows)
  /\ conn' = "closed"
  /\ pc' = "closing"
  /\ UNCHANGED <<results, i, store, items, detvars>>

\* lines 118-119: self.results = items
AssignResults ==
  /\ pc = "closing"
  /\ results' = items
  /\ pc' = "returned"
  /\ UNCHANGED <<i, store, conn, items, detvars>>

NextRun ==
  \/ FindIosDatabase
  \/ Connect
  \/ Execute
  \/ FetchRow
  \/ CloseConnection
  \/ AssignResults

SpecRun == InitRun /\ [][NextRun]_vars

\* ------------------------------------------------------------- re-run on a shuffled copy
PermTimeValues == { T(1, 0), T(1, 300) }

InitPerm ==
  /\ IsVisitSequence(results, UrlValues, PermTimeValues)
  /\ indicators = NoIndicators
  /\ detected = <<>>
  /\ log = <<>>
  /\ cut = <<>>
  /\ pc = "idle"
  /\ i = 0
  /\ store = NoStore
  /\ conn = "none"
  /\ items = <<>>
  /\ first = <<>>

CallFindInjections ==
  /\ pc = "idle"
  /\ pc' = "find"
  /\ i' = 1
  /\ UNCHANGED <<results, indicators, detected, log, cut, runvars>>

ChainFinished == pc = "raised" \/ (pc = "find" /\ i > Len(results))

\* the first run is set aside and _find_injections runs again on a copy of
\* the sequence, shuffled and sorted again by timestamp
Reshuffle ==
  /\ first = <<>>
  /\ ChainFinished
  /\ \E p \in Permutations(1..Len(results)) :
       LET copy == [ k \in 1..Len(results) |-> results[p[k]] ]
       IN  /\ Sorted([ k \in 1..Len(copy) |-> copy[k].timestamp ])
           /\ results' = copy
  /\ first' = <<[ results |-> results, log |-> log, cut |-> cut, pc |-> pc ]>>
  /\ log' = <<>>
  /\ cut' = <<>>
  /\ pc' = "find"
  /\ i' = 1
  /\ UNCHANGED <<indicators, detected, store, conn, items>>

NextPerm ==
  \/ CallFindInjections
  \/ FindInjectionsStep
  \/ Reshuffle

SpecPerm == InitPerm /\ [][NextPerm]_vars

\* ------------------------------------------------------------- the claims
\* the events logged while origin a was processed
Seg(lg, ct, a) == SubSeq(lg, (IF a = 1 THEN 0 ELSE ct[a - 1]) + 1, ct[a])

IsInfo(e) == e[1] = "info"
IsWarning(e) == e[1] = "warning"
Has(sq, P(_)) == \E k \in 1..Len(sq) : P(sq[k])

\* the url has the http:// scheme, in any case
HttpScheme(url) == url # NoneUrl /\ url[1] \in {"http", "HTTP"}

\* origin a redirects to record j of another domain
Candidate(seq, a, j) ==
  /\ HttpScheme(seq[a].url)
  /\ seq[a].redirect_destination # None
  /\ seq[j].visit_id = seq[a].redirect_destination
  /\ seq[j].url # NoneUrl
  /\ Domain(seq[j].url) # Domain(seq[a].url)

\* redirect.timestamp - origin.timestamp, in milliseconds
ElapsedMs(seq, a, j) ==
  (seq[j].timestamp.s - seq[a].timestamp.s) * 1000
    + (seq[j].timestamp.ms - seq[a].timestamp.ms)

Processed == 1..Len(cut)

\* C1: for every candidate pair an elevated (warning) diagnostic is emitted
\* if and only if 0 <= redirect.timestamp - origin.timestamp < 1 second.
C1_ElevatedIffSubSecond ==
  \A a \in Processed : \A j \in 1..Len(results) :
    Candidate(results, a, j) =>
      (Has(Seg(log, cut, a), IsWarning) <=>
         (0 <= ElapsedMs(results, a, j) /\ ElapsedMs(results, a, j) < 1000))

\* C2: a diagnostic is emitted for an origin only if its url is http://
\* (any case), it has a redirectDestination, some record has that visitId
\* and that record's domain differs; and an origin outside these
\* conditions whose url is a string raises no error.
C2_DiagnosticOnlyIf ==
  /\ \A a \in Processed :
       Seg(log, cut, a) # <<>> => \E j \in 1..Len(results) : Candidate(results, a, j)
  /\ (Len(log) > (IF cut = <<>> THEN 0 ELSE cut[Len(cut)])) =>
       \E j \in 1..Len(results) : Candidate(results, Len(cut) + 1, j)
  /\ (pc = "raised" /\ results[i].url # NoneUrl) =>
       /\ HttpScheme(results[i].url)
       /\ results[i].redirect_destination # None
       /\ \E j \in 1..Len(results) :
            /\ results[j].visit_id = results[i].redirect_destination
            /\ results[j].url = NoneUrl

C2_Witness ==
  /\ pc = "done"
  /\ \E a \in Processed : Seg(log, cut, a) # <<>>
  /\ \E a \in Processed :
       /\ Seg(log, cut, a) = <<>>
       /\ results[a].redirect_destination # None
       /\ \E j \in 1..Len(results) :
            results[j].visit_id = results[a].redirect_destination

\* C3: every http:// origin whose redirectDestination equals the visitId of
\* a record with a different domain gets exactly one informational
\* diagnostic naming both domains, whatever the visitId (0 included).
C3_CandidateGetsOneInfo ==
  \A a \in Processed : \A j \in 1..Len(results) :
    Candidate(results, a, j) =>
      /\ Len(SelectSeq(Seg(log, cut, a), IsInfo)) = 1
      /\ SelectSeq(Seg(log, cut, a), IsInfo)[1]
           = <<"info", Domain(results[a].url), Domain(results[j].url)>>

Matches(r) == check_domain(indicators, r.url)

\* C4: with indicators configured, detected holds exactly the records the
\* capability matches on record.url, once each, in input order.
C4_DetectedExactlyMatches ==
  indicators.configured =>
    /\ pc = "done" => detected = SelectSeq(results, Matches)
    /\ pc = "match" => detected = SelectSeq(SubSeq(results, 1, i - 1), Matches)

C4_Witness ==
  /\ indicators.configured
  /\ pc = "done"
  /\ Len(detected) = 2
  /\ detected[1] # detected[2]

\* C5: with no indicator set, chain analysis still runs over every record
\* and the matching step is a no-op: it is never entered and detected
\* stays as it was.
C5_NoIndicatorsNoOp ==
  ~indicators.configured =>
    /\ detected = <<>>
    /\ pc # "match"
    /\ pc = "done" => Len(cut) = Len(results)

C5_Witness ==
  /\ ~indicators.configured
  /\ pc = "done"
  /\ log # <<>>
  /\ detected = <<>>

\* C6: no diagnostic is emitted once a record was appended to detected, and
\* a step of chain analysis neither appends to detected nor changes the
\* visit sequence.
C6_DiagnosticsBeforeDetections ==
  [][ /\ log' # log => (detected = <<>> /\ detected' = <<>>)
      /\ pc = "find" => (detected' = detected /\ results' = results) ]_vars

C6_Witness ==
  /\ pc = "done"
  /\ log # <<>>
  /\ detected # <<>>

\* C7: run never returns or raises with the connection still open.
C7_ConnectionReleased == pc \in {"returned", "raised"} => conn # "open"

\* C8: a record whose url is null is skipped: no error reaches the caller.
C8_BadUrlSkipped ==
  (\E k \in 1..Len(results) : results[k].url = NoneUrl) => pc # "raised"

\* C9: a load error leaves results as it was before run; results is
\* replaced only on return, by all the rows of the store.
C9_NoPartialResults ==
  /\ pc # "returned" => results = PriorResults
  /\ pc = "returned" =>
       /\ Len(results) = Len(store.rows)
       /\ \A k \in 1..Len(results) :
            /\ results[k].url = store.rows[k].url
            /\ results[k].visit_id = store.rows[k].visit_id
            /\ results[k].timestamp = store.rows[k].timestamp

C9_Witness ==
  /\ pc = "raised"
  /\ Len(items) >= 1
  /\ results = PriorResults

BothRuns == first # <<>> /\ ChainFinished

\* C10 as stated: the re-run on the shuffled copy logs the same events in
\* the same order (here for two runs that both complete).
C10_IdenticalInOrder ==
  (BothRuns /\ pc # "raised" /\ first[1].pc # "raised") => log = first[1].log

\* C10: every origin record that both runs process gets the same
\* diagnostics in both; the order of the events across origins is the
\* order of the records, which the re-sort may change.
C10_SamePerOrigin ==
  first # <<>> =>
    \A a \in 1..Len(first[1].cut) : \A b \in Processed :
      first[1].results[a] = results[b] =>
        Seg(first[1].log, first[1].cut, a) = Seg(log, cut, b)

C10_Witness ==
  /\ BothRuns
  /\ pc # "raised"
  /\ first[1].pc # "raised"
  /\ results # first[1].results
  /\ log # first[1].log
  /\ log # <<>>
====
